---- MODULE Spec2Model ----
(***************************************************************************)
(* Model of the ORBCOMM service tracker's notification store, pairing      *)
(* engine and sync reconciler (orbcomm_tracker/database.py, parser.py,     *)
(* sync.py) together with the part of the text extractor                   *)
(* (orbcomm_processor.py) that decides what is stored.                     *)
(*                                                                         *)
(* Times: date_received is the value datetime.fromisoformat() gives for    *)
(* the stored text, counted in seconds from midnight of day 0;             *)
(* time_received is the "HH:MM" text counted in minutes from midnight.     *)
(* A nullable column holds None (<<>>) or Some(v) (<<v>>).                 *)
(***************************************************************************)
EXTENDS Integers, Sequences, FiniteSets, TLC

VARIABLES
    notifications,            \* table notifications as this connection sees it; row id = index
    notification_pairs,       \* table notification_pairs as this connection sees it
    committed_notifications,  \* table notifications as of the last commit
    committed_pairs,          \* table notification_pairs as of the last commit
    sync_pc,                  \* position of SyncOrchestrator.sync: "idle" or "batch"
    counts,                   \* the counts dict of the running parse_and_store_batch
    last,                     \* the last call made and what it returned
    runs,                     \* two concurrent sync runs: each one's position in parse_and_store
    sync_history,             \* table sync_history; row id = index
    clock,                    \* the time, in days
    sync_run                  \* the frame of the running, or else the last, SyncOrchestrator.sync

vars == <<notifications, notification_pairs, committed_notifications,
          committed_pairs, sync_pc, counts, last, runs, sync_history, clock, sync_run>>

sync_vars == <<sync_history, clock, sync_run>>

(* ------------------------------ bounds -------------------------------- *)

MaxNotifs == 3      \* stored notifications
MaxBatch == 2       \* emails in one sync batch

(* --------------------------- value domains ---------------------------- *)

None == <<>>
Some(v) == <<v>>

SecondsPerMinute == 60
SecondsPerDay == 24 * 60 * SecondsPerMinute

Refs == {"S-000001", "S-000002"}

\* The emails of the incoming feed, by what parse_text reads in them: the words of
\* the subject, the Date header (a calendar day and a minute of that day) and the
\* incident duration the Start Time / End Time fields of the body declare
EmailKinds ==
    {[subject |-> {"open"},       email_date |-> [day |-> 0, minute |-> 540],
      body_duration |-> None],
     [subject |-> {"open"},       email_date |-> [day |-> 1, minute |-> 600],
      body_duration |-> None],
     [subject |-> {"continuing"}, email_date |-> [day |-> 1, minute |-> 600],
      body_duration |-> Some(572)],
     [subject |-> {"resolved"},   email_date |-> [day |-> 1, minute |-> 840],
      body_duration |-> Some(572)],
     [subject |-> {"resolved"},   email_date |-> [day |-> 0, minute |-> 540],
      body_duration |-> None]}

\* Cutoff of an archive sweep (now - days), in seconds: noon of day 0. (A cutoff
\* at midnight sharp is left out: there the comparison of the stored texts and the
\* comparison of the instants differ.)
Cutoffs == {SecondsPerDay \div 2}

\* platform is the platform word of the subject ("" when it has none),
\* body_platform the text of the Platform: line of the body (None when it has none)
Email(r, k) ==
    [reference |-> r, subject |-> k.subject, email_date |-> k.email_date,
     platform |-> "IDP", body_platform |-> None, body_duration |-> k.body_duration]

\* The emails the mail client may deliver (message_id is added by the caller):
\* every kind of email about incident S-000001, and the first announcement and the
\* resolution of incident S-000002
EmailContents ==
    {Email("S-000001", k) : k \in EmailKinds}
    \cup {Email("S-000002", k) :
            k \in {x \in EmailKinds :
                      \/ x.subject = {"open"} /\ x.email_date.day = 0
                      \/ x.subject = {"resolved"} /\ x.email_date.day = 1}}

\* the mail of the time before the syncs began: the Open email of day 0 of S-000001
HistoricalContents ==
    {c \in EmailContents :
        c.reference = "S-000001" /\ c.email_date.day = 0 /\ c.subject = {"open"}}

\* the two sync runs of the concurrent case
Runs == {1, 2}

ZeroCounts == [stored |-> 0, duplicates |-> 0, errors |-> 0]

\* no sync() has been called yet
NoSyncRun == [pc |-> "idle", sync_id |-> 0, inbox_source |-> "", since_date |-> 0]

(* ------------------------------ helpers ------------------------------- *)

\* int(x / y) of Python for y > 0: rounds toward zero
TruncDiv(x, y) == IF x >= 0 THEN x \div y ELSE -((-x) \div y)

Ids(N) == 1..Len(N)

RowsOf(N, ref) == {i \in Ids(N) : N[i].reference_number = ref}

(* ---------------------------- text extractor -------------------------- *)

StatusFromSubject(words) ==
    IF words \cap {"resolved", "completed", "restored"} # {} THEN "Resolved"
    ELSE IF "open" \in words THEN "Open"
    ELSE IF "continuing" \in words THEN "Continuing"
    ELSE "Open"

\* the platform parse_text reads from the subject
PlatformFromSubject(word) ==
    IF word = "IDP" THEN "IDP"
    ELSE IF word \in {"OGx", "OGX"} THEN "OGx"
    ELSE IF word = "OGWS" THEN "OGWS"
    ELSE ""

\* the platform of the result of parse_text: the Platform: line of the body wins
PlatformOf(email) ==
    IF email.body_platform # None THEN email.body_platform[1]
    ELSE PlatformFromSubject(email.platform)

\* parse_text: what of its result reaches the store
parse_text(email) ==
    LET status == StatusFromSubject(email.subject) IN
    [reference_number          |-> email.reference,
     date_received             |-> email.email_date.day * SecondsPerDay,
     time_received             |-> Some(email.email_date.minute),
     platform                  |-> PlatformOf(email),
     status                    |-> status,
     raw_email_subject         |-> email.subject,
     incident_duration_minutes |-> IF status = "Resolved" THEN email.body_duration
                                   ELSE None]

(* --------------------------- notification store ----------------------- *)

GmailIds(N) == {N[i].gmail_message_id : i \in Ids(N)}

\* as ConstraintsHold, gmail_message_id not being declared UNIQUE
ConstraintsHold_NotUnique(N, data) ==
    /\ data.platform \in {"IDP", "OGx", "OGWS", "Unknown"}
    /\ data.status \in {"Open", "Resolved", "Continuing"}

\* the UNIQUE and CHECK constraints of table notifications
ConstraintsHold(N, data) ==
    /\ data.gmail_message_id \notin GmailIds(N)
    /\ data.platform \in {"IDP", "OGx", "OGWS", "Unknown"}
    /\ data.status \in {"Open", "Resolved", "Continuing"}

NewRow(data) ==
    [reference_number          |-> data.reference_number,
     gmail_message_id          |-> data.gmail_message_id,
     inbox_source              |-> data.inbox_source,
     date_received             |-> data.date_received,
     time_received             |-> data.time_received,
     platform                  |-> data.platform,
     status                    |-> data.status,
     raw_email_subject         |-> data.raw_email_subject,
     incident_duration_minutes |-> data.incident_duration_minutes,
     resolution_date           |-> None,
     time_to_resolve_minutes   |-> None,
     is_archived               |-> FALSE]

\* as insert_notification, the statement being INSERT OR REPLACE: a stored
\* gmail_message_id has its row written anew
insert_notification_Replace(N, data) ==
    IF data.gmail_message_id \in GmailIds(N)
    THEN LET i == CHOOSE j \in Ids(N) : N[j].gmail_message_id = data.gmail_message_id
         IN  [notifications |-> [N EXCEPT ![i] = NewRow(data)], ret |-> i, commit |-> TRUE]
    ELSE [notifications |-> Append(N, NewRow(data)), ret |-> Len(N) + 1, commit |-> TRUE]

\* as insert_notification, gmail_message_id not being checked by the INSERT
insert_notification_Unchecked(N, data) ==
    IF ConstraintsHold_NotUnique(N, data)
    THEN [notifications |-> Append(N, NewRow(data)), ret |-> Len(N) + 1, commit |-> TRUE]
    ELSE [notifications |-> N, ret |-> 0, commit |-> FALSE]

\* Database.insert_notification: the tables and the id returned (0 for None)
insert_notification(N, data) ==
    IF ConstraintsHold(N, data)
    THEN [notifications |-> Append(N, NewRow(data)), ret |-> Len(N) + 1, commit |-> TRUE]
    ELSE [notifications |-> N, ret |-> 0, commit |-> FALSE]

(* ----------------------------- pairing engine -------------------------- *)

\* as FirstWithStatus, the SELECT of link_notification_pair leaving archived rows out
FirstWithStatus_SkipArchived(N, ref, status) ==
    LET S == {i \in RowsOf(N, ref) : N[i].status = status /\ ~N[i].is_archived} IN
    {i \in S : \A j \in S : N[i].date_received <= N[j].date_received}

\* The rows of ref with this status that ORDER BY date_received may put first
\* (SQL leaves the order of rows with equal date_received open)
FirstWithStatus(N, ref, status) ==
    LET S == {i \in RowsOf(N, ref) : N[i].status = status} IN
    {i \in S : \A j \in S : N[i].date_received <= N[j].date_received}

\* the scan of link_notification_pair for its two anchors
OpenAnchors(N, ref) == FirstWithStatus(N, ref, "Open")

ResolvedAnchors(N, ref) == FirstWithStatus(N, ref, "Resolved")

\* int((resolved_dt - open_dt).total_seconds() / 60)
time_to_resolve(open_dt, resolved_dt) ==
    TruncDiv(resolved_dt - open_dt, SecondsPerMinute)

\* as UpsertPair, the statement being a plain INSERT into a table without the
\* UNIQUE constraint
UpsertPair_Insert(P, row) == P \cup {row}

\* INSERT OR REPLACE INTO notification_pairs, reference_number being UNIQUE
UpsertPair(P, row) ==
    {p \in P : p.reference_number # row.reference_number} \cup {row}

\* as UpdateResolved, the WHERE clause naming the reference number of the row
UpdateResolved_AllOfRef(N, id, resolved_dt, ttr) ==
    [i \in Ids(N) |->
        IF N[i].reference_number = N[id].reference_number
        THEN [N[i] EXCEPT !.resolution_date = Some(resolved_dt),
                          !.time_to_resolve_minutes = Some(ttr)]
        ELSE N[i]]

\* UPDATE notifications SET resolution_date, time_to_resolve_minutes WHERE id = ?
UpdateResolved(N, id, resolved_dt, ttr) ==
    [N EXCEPT ![id].resolution_date = Some(resolved_dt),
              ![id].time_to_resolve_minutes = Some(ttr)]

\* as ForceResolved, the WHERE clause naming status = 'Open' only
ForceResolved_OpenOnly(N, ref) ==
    [i \in Ids(N) |->
        IF N[i].reference_number = ref /\ N[i].status = "Open"
        THEN [N[i] EXCEPT !.status = "Resolved"]
        ELSE N[i]]

\* UPDATE notifications SET status = 'Resolved'
\* WHERE reference_number = ? AND status IN ('Open', 'Continuing')
ForceResolved(N, ref) ==
    [i \in Ids(N) |->
        IF N[i].reference_number = ref /\ N[i].status \in {"Open", "Continuing"}
        THEN [N[i] EXCEPT !.status = "Resolved"]
        ELSE N[i]]

\* the early returns of link_notification_pair
LinkPrecondition(N, ref) ==
    /\ Cardinality(RowsOf(N, ref)) >= 2
    /\ OpenAnchors(N, ref) # {}
    /\ ResolvedAnchors(N, ref) # {}

\* as PairRow, the incident duration being the received-date latency
PairRow_DurationFromLatency(N, ref, o, r) ==
    LET ttr == time_to_resolve(N[o].date_received, N[r].date_received) IN
    [reference_number          |-> ref,
     open_notification_id      |-> o,
     resolved_notification_id  |-> r,
     time_to_resolve_minutes   |-> ttr,
     incident_duration_minutes |-> Some(ttr)]

\* the row link_notification_pair writes into notification_pairs for the anchors
\* o and r: incident_duration = resolved_notif["incident_duration_minutes"]
PairRow(N, ref, o, r) ==
    [reference_number          |-> ref,
     open_notification_id      |-> o,
     resolved_notification_id  |-> r,
     time_to_resolve_minutes   |-> time_to_resolve(N[o].date_received, N[r].date_received),
     incident_duration_minutes |-> N[r].incident_duration_minutes]

\* The three statements and the commit of link_notification_pair for the anchors
\* o and r. fail names the statement after which an exception is raised ("none":
\* no exception): the except branch returns False and neither commits nor rolls back.
LinkWith(N, P, ref, o, r, fail) ==
    LET ttr == time_to_resolve(N[o].date_received, N[r].date_received)
        P1  == UpsertPair(P, PairRow(N, ref, o, r))
        N1  == UpdateResolved(N, r, N[r].date_received, ttr)
        N2  == ForceResolved(N1, ref)
    IN  CASE fail = "none"         -> [notifications |-> N2, pairs |-> P1, ret |-> TRUE]
          [] fail = "after_upsert" -> [notifications |-> N,  pairs |-> P1, ret |-> FALSE]
          [] fail = "after_update" -> [notifications |-> N1, pairs |-> P1, ret |-> FALSE]
          [] fail = "at_commit"    -> [notifications |-> N2, pairs |-> P1, ret |-> FALSE]

\* as link_notification_pair, the status forcing being done before the anchors
\* are checked
link_notification_pair_ForceFirst(N, P, ref, fail) ==
    IF ~LinkPrecondition(N, ref)
    THEN {[notifications |-> IF ResolvedAnchors(N, ref) # {} THEN ForceResolved(N, ref)
                             ELSE N,
           pairs |-> P, ret |-> FALSE]}
    ELSE {LinkWith(N, P, ref, o, r, fail) :
            o \in OpenAnchors(N, ref), r \in ResolvedAnchors(N, ref)}

\* Database.link_notification_pair: the outcomes it can have
link_notification_pair(N, P, ref, fail) ==
    IF ~LinkPrecondition(N, ref)
    THEN {[notifications |-> N, pairs |-> P, ret |-> FALSE]}
    ELSE {LinkWith(N, P, ref, o, r, fail) :
            o \in OpenAnchors(N, ref), r \in ResolvedAnchors(N, ref)}

\* ORBCOMMParser.link_all_pairs over the reference numbers refs
RECURSIVE link_all_pairs(_, _, _)
link_all_pairs(N, P, refs) ==
    IF refs = {} THEN {[notifications |-> N, pairs |-> P, linked |-> 0]}
    ELSE LET ref == CHOOSE r \in refs : TRUE IN
         UNION {{[rest EXCEPT !.linked = @ + (IF one.ret THEN 1 ELSE 0)] :
                    rest \in link_all_pairs(one.notifications, one.pairs, refs \ {ref})} :
                one \in link_notification_pair(N, P, ref, "none")}

\* as StoredRefs, the SELECT having no WHERE clause
StoredRefs_AnyInbox(N, inbox_source) == {N[i].reference_number : i \in Ids(N)}

\* SELECT DISTINCT reference_number FROM notifications WHERE inbox_source = ?
StoredRefs(N, inbox_source) ==
    {N[i].reference_number : i \in {j \in Ids(N) : N[j].inbox_source = inbox_source}}

(* -------------------------------- inputs ------------------------------ *)

\* the content of the email stored as row i
ContentOf(N, i) ==
    {c \in EmailContents :
        /\ c.reference = N[i].reference_number
        /\ c.subject = N[i].raw_email_subject
        /\ c.email_date.day * SecondsPerDay = N[i].date_received
        /\ Some(c.email_date.minute) = N[i].time_received}

\* Emails the mail client may deliver: a new message with any content, or a
\* stored message once more
Emails(N) ==
    {[message_id |-> Len(N) + 1, content |-> c] : c \in EmailContents}
    \cup UNION {{[message_id |-> N[i].gmail_message_id, content |-> c] :
                    c \in ContentOf(N, i)} : i \in Ids(N)}

\* Emails import_historical may deliver: the mail of the time before the syncs
\* began, a new message or a stored message once more
HistoricalEmails(N) ==
    {e \in Emails(N) : e.message_id \in GmailIds(N) \/ e.content \in HistoricalContents}

\* the dict the callers of insert_notification build from parse_text
ParsedData(email, inbox_source) ==
    [gmail_message_id |-> email.message_id, inbox_source |-> inbox_source]
    @@ parse_text(email.content)

\* the inbox_source of import_historical and that of SyncOrchestrator
HistoricalInbox == "inbox1_historical"

ContinuousInbox == "inbox1_continuous"

\* the result of a sync; invoked: the reference numbers link_all_pairs has called
\* link_pairs_for_reference for
NoResult ==
    [stored |-> 0, duplicates |-> 0, errors |-> 0, pairs_linked |-> 0, invoked |-> {}]

Call(op, ref, gid, ret) ==
    [op |-> op, ref |-> ref, gid |-> gid, ret |-> ret, platform |-> "",
     result |-> NoResult]

\* a call that stores an email: the platform is that of the parsed email
StoreCall(op, email, ret) ==
    [Call(op, "", email.message_id, ret) EXCEPT !.platform = PlatformOf(email.content)]

(* -------------------------------- actions ----------------------------- *)

Init ==
    /\ notifications = <<>>
    /\ notification_pairs = {}
    /\ committed_notifications = <<>>
    /\ committed_pairs = {}
    /\ sync_pc = "idle"
    /\ counts = ZeroCounts
    /\ last = Call("init", "", 0, 0)
    /\ runs = [r \in Runs |-> [pc |-> "start", gid |-> 0, existing |-> FALSE, ret |-> 0]]
    /\ sync_history = <<>>
    /\ clock = 0
    /\ sync_run = NoSyncRun

\* a call of Database.insert_notification with a parsed email (import_historical)
InsertNotificationFrom(E) ==
    /\ sync_pc = "idle"
    /\ Len(notifications) < MaxNotifs
    /\ \E email \in E :
         LET out == insert_notification(notifications, ParsedData(email, HistoricalInbox)) IN
         /\ notifications' = out.notifications
         /\ notification_pairs' = notification_pairs
         /\ committed_notifications' =
                IF out.commit THEN out.notifications ELSE committed_notifications
         /\ committed_pairs' = IF out.commit THEN notification_pairs ELSE committed_pairs
         /\ last' = StoreCall("insert", email, out.ret)
    /\ UNCHANGED <<sync_pc, counts, runs, sync_vars>>

InsertNotification == InsertNotificationFrom(HistoricalEmails(notifications))

\* a call of Database.link_notification_pair that meets no storage failure
LinkNotificationPair ==
    /\ sync_pc = "idle"
    /\ \E ref \in Refs :
         \E out \in link_notification_pair(notifications, notification_pairs, ref, "none") :
            /\ notifications' = out.notifications
            /\ notification_pairs' = out.pairs
            /\ committed_notifications' =
                   IF out.ret THEN out.notifications ELSE committed_notifications
            /\ committed_pairs' = IF out.ret THEN out.pairs ELSE committed_pairs
            /\ last' = Call("link", ref, 0, IF out.ret THEN 1 ELSE 0)
    /\ UNCHANGED <<sync_pc, counts, runs, sync_vars>>

\* a call of Database.link_notification_pair in which a statement raises
LinkNotificationPairFails ==
    /\ sync_pc = "idle"
    /\ \E ref \in Refs, fail \in {"after_upsert", "after_update", "at_commit"} :
         /\ LinkPrecondition(notifications, ref)
         /\ \E out \in link_notification_pair(notifications, notification_pairs, ref, fail) :
              /\ notifications' = out.notifications
              /\ notification_pairs' = out.pairs
              /\ last' = Call("link_failed", ref, 0, 0)
    /\ UNCHANGED <<committed_notifications, committed_pairs, sync_pc, counts, runs, sync_vars>>

\* as ArchiveHits, the WHERE clause lacking is_archived = 0
ArchiveHits_AnyFlag(N, cutoff) == {i \in Ids(N) : N[i].date_received < cutoff}

\* the rows of UPDATE notifications SET is_archived = 1
\* WHERE date_received < ? AND is_archived = 0
ArchiveHits(N, cutoff) ==
    {i \in Ids(N) : N[i].date_received < cutoff /\ ~N[i].is_archived}

\* Database.archive_old_notifications
ArchiveOldNotifications ==
    /\ sync_pc = "idle"
    /\ \E cutoff \in Cutoffs :
         LET hit == ArchiveHits(notifications, cutoff)
         IN  /\ notifications' =
                    [i \in Ids(notifications) |->
                        IF i \in hit THEN [notifications[i] EXCEPT !.is_archived = TRUE]
                        ELSE notifications[i]]
             /\ last' = Call("archive", "", 0, Cardinality(hit))
    /\ notification_pairs' = notification_pairs
    /\ committed_notifications' = notifications'
    /\ committed_pairs' = notification_pairs
    /\ UNCHANGED <<sync_pc, counts, runs, sync_vars>>

\* as get_notifications_by_status, include_archived being ignored
get_notifications_by_status_AnyFlag(N, status, include_archived) ==
    {i \in Ids(N) : N[i].status = status}

\* Database.get_notifications_by_status: the ids of the rows it returns
get_notifications_by_status(N, status, include_archived) ==
    IF include_archived
    THEN {i \in Ids(N) : N[i].status = status}
    ELSE {i \in Ids(N) : N[i].status = status /\ ~N[i].is_archived}

\* a call of Database.get_notifications_by_status; its result holds the arguments
\* and the rows returned
GetNotificationsByStatus ==
    /\ sync_pc = "idle"
    /\ \E status \in {"Open", "Continuing", "Resolved"}, include_archived \in BOOLEAN :
         last' = [Call("list", "", 0, 0) EXCEPT
                     !.result = [status |-> status,
                                 include_archived |-> include_archived,
                                 rows |-> get_notifications_by_status(
                                              notifications, status, include_archived)]]
    /\ UNCHANGED <<notifications, notification_pairs, committed_notifications,
                   committed_pairs, sync_pc, counts, runs, sync_vars>>

\* as truly_open_count, the subquery for Resolved rows leaving archived rows out as
\* the outer query does
truly_open_count_ListedResolved(N, include_archived) ==
    Cardinality({N[i].reference_number :
        i \in {j \in Ids(N) :
                  /\ N[j].status \in {"Open", "Continuing"}
                  /\ include_archived \/ ~N[j].is_archived
                  /\ \A k \in RowsOf(N, N[j].reference_number) :
                        N[k].status = "Resolved"
                        => ~(include_archived \/ ~N[k].is_archived)}})

\* Database.get_current_stats: SELECT COUNT(DISTINCT reference_number) ... WHERE
\* status IN ('Open', 'Continuing') [AND is_archived = 0] AND reference_number
\* NOT IN (SELECT reference_number FROM notifications WHERE status = 'Resolved')
truly_open_count(N, include_archived) ==
    Cardinality({N[i].reference_number :
        i \in {j \in Ids(N) :
                  /\ N[j].status \in {"Open", "Continuing"}
                  /\ include_archived \/ ~N[j].is_archived
                  /\ \A k \in RowsOf(N, N[j].reference_number) :
                        N[k].status # "Resolved"}})

\* a call of Database.get_current_stats; its result holds the argument and the
\* open_count returned
GetCurrentStats ==
    /\ sync_pc = "idle"
    /\ \E include_archived \in BOOLEAN :
         last' = [Call("stats", "", 0, 0) EXCEPT
                     !.result = [include_archived |-> include_archived,
                                 open_count |-> truly_open_count(notifications,
                                                                 include_archived)]]
    /\ UNCHANGED <<notifications, notification_pairs, committed_notifications,
                   committed_pairs, sync_pc, counts, runs, sync_vars>>

\* ORBCOMMParser.parse_and_store on one email of the batch
parse_and_store(N, email) ==
    IF email.message_id \in GmailIds(N)
    THEN [notifications |-> N, ret |-> 0, commit |-> FALSE]
    ELSE insert_notification(N, ParsedData(email, ContinuousInbox))

\* as parse_and_store_batch, the loop being left at the first email that is not
\* stored: the emails after it are not processed
parse_and_store_batch_StopAfterFailure(N, c, email) ==
    LET out == parse_and_store(N, email) IN
    IF c.duplicates > 0
    THEN [notifications |-> N, ret |-> 0, commit |-> FALSE, counts |-> c]
    ELSE [notifications |-> out.notifications, ret |-> out.ret, commit |-> out.commit,
          counts |-> IF out.ret # 0
                     THEN [c EXCEPT !.stored = @ + 1]
                     ELSE [c EXCEPT !.duplicates = @ + 1]]

\* as parse_and_store_batch, every email processed being counted as stored
parse_and_store_batch_CountStored(N, c, email) ==
    LET out == parse_and_store(N, email) IN
    [notifications |-> out.notifications, ret |-> out.ret, commit |-> out.commit,
     counts |-> [c EXCEPT !.stored = @ + 1]]

\* one turn of the loop of ORBCOMMParser.parse_and_store_batch: the email is
\* parsed and stored and the result counted
parse_and_store_batch(N, c, email) ==
    LET out == parse_and_store(N, email) IN
    [notifications |-> out.notifications, ret |-> out.ret, commit |-> out.commit,
     counts |-> IF out.ret # 0
                THEN [c EXCEPT !.stored = @ + 1]
                ELSE [c EXCEPT !.duplicates = @ + 1]]

\* one turn of the loop of parse_and_store_batch on an email of E, as it acts on
\* the store and the counts
BatchTurn(E) ==
    /\ counts.stored + counts.duplicates + counts.errors < MaxBatch
    /\ \E email \in E :
         /\ email.message_id \in GmailIds(notifications) \/ Len(notifications) < MaxNotifs
         /\ LET out == parse_and_store_batch(notifications, counts, email) IN
            /\ notifications' = out.notifications
            /\ committed_notifications' =
                   IF out.commit THEN out.notifications ELSE committed_notifications
            /\ committed_pairs' = IF out.commit THEN notification_pairs ELSE committed_pairs
            /\ counts' = out.counts
            /\ last' = StoreCall("parse_and_store", email, out.ret)
    /\ sync_pc' = "batch"
    /\ UNCHANGED <<notification_pairs, runs>>

\* SyncOrchestrator.sync: one turn of the loop of parse_and_store_batch (the first
\* turn starts the run)
SyncStoreEmailFrom(E) == BatchTurn(E) /\ UNCHANGED sync_vars

SyncStoreEmail == SyncStoreEmailFrom(Emails(notifications))

\* link_all_pairs if anything was stored, and the result dict, as they act on the
\* store and the counts
AfterBatch ==
    /\ sync_pc = "batch"
    /\ \E out \in (IF counts.stored > 0
                   THEN link_all_pairs(notifications, notification_pairs,
                                       StoredRefs(notifications, ContinuousInbox))
                   ELSE {[notifications |-> notifications,
                          pairs |-> notification_pairs, linked |-> 0]}) :
         LET refs == IF counts.stored > 0
                     THEN StoredRefs(notifications, ContinuousInbox) ELSE {}
         IN
         /\ notifications' = out.notifications
         /\ notification_pairs' = out.pairs
         /\ committed_notifications' =
                IF out.linked > 0 THEN out.notifications ELSE committed_notifications
         /\ committed_pairs' = IF out.linked > 0 THEN out.pairs ELSE committed_pairs
         /\ last' = [op |-> "sync", ref |-> "", gid |-> 0, ret |-> 0, platform |-> "",
                     result |-> [stored |-> counts.stored,
                                 duplicates |-> counts.duplicates,
                                 errors |-> counts.errors,
                                 pairs_linked |-> out.linked,
                                 invoked |-> refs]]
    /\ sync_pc' = "idle"
    /\ counts' = ZeroCounts
    /\ UNCHANGED runs

\* SyncOrchestrator.sync after the batch: link_all_pairs if anything was stored,
\* then the result is returned
SyncLinkPairs == AfterBatch /\ UNCHANGED sync_vars

Next ==
    \/ InsertNotification
    \/ LinkNotificationPair
    \/ ArchiveOldNotifications
    \/ SyncStoreEmail
    \/ SyncLinkPairs

Spec == Init /\ [][Next]_vars

NextFail == Next \/ LinkNotificationPairFails

SpecFail == Init /\ [][NextFail]_vars

(* ------------------- the store without the syncs --------------------- *)

\* import_historical run on any mail of the feed
InsertNotificationAny == InsertNotificationFrom(Emails(notifications))

NextStore ==
    \/ InsertNotificationAny
    \/ LinkNotificationPair
    \/ ArchiveOldNotifications

SpecStore == Init /\ [][NextStore]_vars

(* ------------- rows stored with a time of day in date_received ------------ *)

\* date_received values a caller of Database.insert_notification may pass,
\* "2025-01-01 10:00:00", "2025-01-01 10:00:30" and "2025-01-01 10:01:30", as
\* seconds since 2025-01-01 00:00:00
Instants ==
    {600 * SecondsPerMinute, 600 * SecondsPerMinute + 30, 601 * SecondsPerMinute + 30}

\* the dict a caller builds by hand, without parse_text
DirectData(N, status, instant) ==
    [reference_number          |-> "S-000001",
     gmail_message_id          |-> Len(N) + 1,
     inbox_source              |-> "test_inbox",
     date_received             |-> instant,
     time_received             |-> None,
     platform                  |-> "IDP",
     status                    |-> status,
     raw_email_subject         |-> {},
     incident_duration_minutes |-> None]

\* a call of Database.insert_notification with a dict built by hand
InsertNotificationDirect ==
    /\ sync_pc = "idle"
    /\ Len(notifications) < MaxNotifs
    /\ \E status \in {"Open", "Resolved"}, instant \in Instants :
         LET data == DirectData(notifications, status, instant)
             out  == insert_notification(notifications, data) IN
         /\ notifications' = out.notifications
         /\ notification_pairs' = notification_pairs
         /\ committed_notifications' =
                IF out.commit THEN out.notifications ELSE committed_notifications
         /\ committed_pairs' = IF out.commit THEN notification_pairs ELSE committed_pairs
         /\ last' = Call("insert", "", data.gmail_message_id, out.ret)
    /\ UNCHANGED <<sync_pc, counts, runs, sync_vars>>

NextTimes == InsertNotificationDirect \/ LinkNotificationPair

SpecTimes == Init /\ [][NextTimes]_vars

(* ---------------------- backfill of incident times --------------------- *)

\* a row stored before _run_migrations added the incident columns: the columns
\* the migration adds are NULL
LegacyData(email) ==
    [ParsedData(email, HistoricalInbox) EXCEPT !.incident_duration_minutes = None]

\* a call of Database.insert_notification made before the migration
InsertNotificationLegacy ==
    /\ sync_pc = "idle"
    /\ Len(notifications) < MaxNotifs
    /\ \E email \in Emails(notifications) :
         LET out == insert_notification(notifications, LegacyData(email)) IN
         /\ notifications' = out.notifications
         /\ notification_pairs' = notification_pairs
         /\ committed_notifications' =
                IF out.commit THEN out.notifications ELSE committed_notifications
         /\ committed_pairs' = IF out.commit THEN notification_pairs ELSE committed_pairs
         /\ last' = StoreCall("insert", email, out.ret)
    /\ UNCHANGED <<sync_pc, counts, runs, sync_vars>>

\* the rows the backfill selects: WHERE status = 'Resolved'
ResolvedRows(N) == {i \in Ids(N) : N[i].status = "Resolved"}

\* parsed.get("incident_duration_minutes") of the stored subject and body of row i
ReparsedDuration(N, i) ==
    LET c == CHOOSE x \in ContentOf(N, i) : TRUE IN
    parse_text(c).incident_duration_minutes

\* the update loop of backfill_incident_times
BackfillUpdate(N) ==
    [i \in Ids(N) |->
        IF i \in ResolvedRows(N) /\ ReparsedDuration(N, i) # None
        THEN [N[i] EXCEPT !.incident_duration_minutes = ReparsedDuration(N, i)]
        ELSE N[i]]

\* SELECT DISTINCT reference_number FROM notification_pairs
PairedRefs(P) == {p.reference_number : p \in P}

\* backfill_incident_times: the update loop, the commit and the re-link of every
\* reference number of notification_pairs (nothing at all when no row is Resolved)
BackfillIncidentTimes ==
    /\ sync_pc = "idle"
    /\ IF ResolvedRows(notifications) = {}
       THEN /\ UNCHANGED <<notifications, notification_pairs,
                           committed_notifications, committed_pairs>>
            /\ last' = Call("backfill", "", 0, 0)
       ELSE \E out \in link_all_pairs(BackfillUpdate(notifications), notification_pairs,
                                      PairedRefs(notification_pairs)) :
               /\ notifications' = out.notifications
               /\ notification_pairs' = out.pairs
               /\ committed_notifications' = out.notifications
               /\ committed_pairs' = out.pairs
               /\ last' = [Call("backfill", "", 0, out.linked) EXCEPT
                              !.result.invoked = PairedRefs(notification_pairs)]
    /\ UNCHANGED <<sync_pc, counts, runs, sync_vars>>

NextBackfill ==
    \/ InsertNotificationAny
    \/ InsertNotificationLegacy
    \/ LinkNotificationPair
    \/ BackfillIncidentTimes

SpecBackfill == Init /\ [][NextBackfill]_vars

(* ------------------------------ sync history --------------------------- *)

MaxSyncs == 3       \* rows of sync_history
MaxClock == 2       \* days that pass

\* timedelta(days=7) of the first sync
FirstSyncDays == 7

SecondInbox == "inbox2_continuous"

SyncInboxes == {ContinuousInbox, SecondInbox}

\* the mail inbox 1 delivers to its syncs: the Open email of day 0 and the Resolved
\* email of day 1 of S-000001, new or stored already (inbox 2 has no mail)
SyncFeed(N) ==
    {e \in Emails(N) :
        /\ e.content.reference = "S-000001"
        /\ \/ e.content.subject = {"open"} /\ e.content.email_date.day = 0
           \/ e.content.subject = {"resolved"} /\ e.content.email_date.day = 1}

\* the rows of inbox_source recorded as success
SuccessRows(H, inbox_source) ==
    {i \in 1..Len(H) : H[i].inbox_source = inbox_source /\ H[i].status = Some("success")}

\* Database.get_last_sync_date: SELECT sync_start ... WHERE inbox_source = ? AND
\* status = 'success' ORDER BY sync_start DESC LIMIT 1
get_last_sync_date(H, inbox_source) ==
    LET S == SuccessRows(H, inbox_source) IN
    IF S = {} THEN None
    ELSE Some(CHOOSE t \in {H[i].sync_start : i \in S} :
                 \A i \in S : H[i].sync_start <= t)

\* Database.log_sync_start: INSERT INTO sync_history (inbox_source, sync_start)
log_sync_start(H, inbox_source, now) ==
    Append(H, [inbox_source |-> inbox_source, sync_start |-> now, status |-> None])

\* Database.log_sync_complete: UPDATE sync_history SET status = ? WHERE id = ?
log_sync_complete(H, sync_id, status) == [H EXCEPT ![sync_id].status = Some(status)]

\* time passes
Tick ==
    /\ clock < MaxClock
    /\ clock' = clock + 1
    /\ UNCHANGED <<notifications, notification_pairs, committed_notifications,
                   committed_pairs, sync_pc, counts, last, runs, sync_history, sync_run>>

\* sync() up to the fetch: log_sync_start, then the since_date is that of the last
\* successful sync or, when there is none, seven days ago
SyncBegin ==
    /\ sync_run.pc = "idle"
    /\ sync_pc = "idle"
    /\ Len(sync_history) < MaxSyncs
    /\ \E inbox_source \in SyncInboxes :
         LET H         == log_sync_start(sync_history, inbox_source, clock)
             last_sync == get_last_sync_date(H, inbox_source)
         IN
         /\ sync_history' = H
         /\ sync_run' = [pc |-> "fetch", sync_id |-> Len(H), inbox_source |-> inbox_source,
                         since_date |-> IF last_sync # None THEN last_sync[1]
                                        ELSE clock - FirstSyncDays]
         /\ last' = Call("log_sync_start", "", 0, Len(H))
    /\ UNCHANGED <<notifications, notification_pairs, committed_notifications,
                   committed_pairs, sync_pc, counts, runs, clock>>

\* fetch_new_emails raises: the except branch of sync() logs the sync as failed
SyncFetchFails ==
    /\ sync_run.pc = "fetch"
    /\ sync_history' = log_sync_complete(sync_history, sync_run.sync_id, "failed")
    /\ sync_run' = [sync_run EXCEPT !.pc = "idle"]
    /\ last' = Call("sync_failed", "", 0, sync_run.sync_id)
    /\ UNCHANGED <<notifications, notification_pairs, committed_notifications,
                   committed_pairs, sync_pc, counts, runs, clock>>

\* fetch_new_emails returns no email: the sync is logged as success
SyncNoEmails ==
    /\ sync_run.pc = "fetch"
    /\ sync_history' = log_sync_complete(sync_history, sync_run.sync_id, "success")
    /\ sync_run' = [sync_run EXCEPT !.pc = "idle"]
    /\ last' = Call("sync_empty", "", 0, sync_run.sync_id)
    /\ UNCHANGED <<notifications, notification_pairs, committed_notifications,
                   committed_pairs, sync_pc, counts, runs, clock>>

\* one turn of the loop of parse_and_store_batch on the emails fetched
SyncBatchTurn ==
    /\ sync_run.pc \in {"fetch", "batch"}
    /\ sync_run.inbox_source = ContinuousInbox
    /\ BatchTurn(SyncFeed(notifications))
    /\ sync_run' = [sync_run EXCEPT !.pc = "batch"]
    /\ UNCHANGED <<sync_history, clock>>

\* sync() after the batch: link_all_pairs, then log_sync_complete with "success"
\* if counts["errors"] == 0 else "partial"
SyncLogComplete ==
    /\ sync_run.pc = "batch"
    /\ AfterBatch
    /\ sync_history' =
           log_sync_complete(sync_history, sync_run.sync_id,
                             IF counts.errors = 0 THEN "success" ELSE "partial")
    /\ sync_run' = [sync_run EXCEPT !.pc = "idle"]
    /\ UNCHANGED clock

NextSync ==
    \/ Tick
    \/ SyncBegin
    \/ SyncFetchFails
    \/ SyncNoEmails
    \/ SyncBatchTurn
    \/ SyncLogComplete

SpecSync == Init /\ [][NextSync]_vars

(* ------------------------- listing by status ------------------------- *)

NextList ==
    \/ SyncStoreEmail
    \/ SyncLinkPairs
    \/ ArchiveOldNotifications
    \/ GetNotificationsByStatus
    \/ GetCurrentStats

SpecList == Init /\ [][NextList]_vars

(* ------------------------ two concurrent syncs ------------------------ *)

\* The mailbox both runs fetch from: message m is an Open email of S-000001 when m
\* is odd and a Resolved one when m is even
RaceEmail(m) ==
    [message_id |-> m,
     content |-> Email("S-000001",
                       CHOOSE k \in EmailKinds :
                          /\ k.subject = (IF m % 2 = 1 THEN {"open"} ELSE {"resolved"})
                          /\ k.email_date.day = (IF m % 2 = 1 THEN 0 ELSE 1))]

\* parse_and_store of run r up to its check: existing =
\* get_notification_by_gmail_id(message_id); the run returns None if it is set
RaceCheck ==
    \E r \in Runs, m \in 1..MaxNotifs :
        /\ runs[r].pc \in {"start", "done"}
        /\ LET existing == m \in GmailIds(notifications) IN
           runs' = [runs EXCEPT ![r] = [pc |-> IF existing THEN "done" ELSE "checked",
                                        gid |-> m, existing |-> existing, ret |-> 0]]
        /\ UNCHANGED <<notifications, notification_pairs, committed_notifications,
                       committed_pairs, sync_pc, counts, last, sync_vars>>

\* parse_and_store of run r from its insert_notification on
RaceInsert ==
    \E r \in Runs :
        /\ runs[r].pc = "checked"
        /\ LET email == RaceEmail(runs[r].gid)
               out == insert_notification(notifications, ParsedData(email, ContinuousInbox))
           IN  /\ notifications' = out.notifications
               /\ committed_notifications' =
                      IF out.commit THEN out.notifications ELSE committed_notifications
               /\ committed_pairs' =
                      IF out.commit THEN notification_pairs ELSE committed_pairs
               /\ runs' = [runs EXCEPT ![r].pc = "done", ![r].ret = out.ret]
               /\ last' = StoreCall("parse_and_store", email, out.ret)
        /\ UNCHANGED <<notification_pairs, sync_pc, counts, sync_vars>>

NextRace ==
    \/ RaceCheck
    \/ RaceInsert

SpecRace == Init /\ [][NextRace]_vars

(* ---------------- emails with and without a platform ----------------- *)

\* What an email says about its platform: the platform word of its subject and the
\* Platform: line of its body
PlatformVariants ==
    {[platform |-> "OGX", body_platform |-> None],
     [platform |-> "",    body_platform |-> None],
     [platform |-> "",    body_platform |-> Some("OGWS")],
     [platform |-> "IDP", body_platform |-> Some("IsatData Pro")]}

\* the emails of one incident, an Open one and its Resolved one, in every variant
FeedContents ==
    {[Email("S-000001", k) EXCEPT !.platform = v.platform,
                                  !.body_platform = v.body_platform] :
        k \in {e \in EmailKinds : e.subject \in {{"open"}, {"resolved"}}
                                   /\ e.body_duration = None},
        v \in PlatformVariants}

\* the content of the email stored as row i
FeedContentOf(N, i) ==
    {c \in FeedContents :
        /\ c.reference = N[i].reference_number
        /\ c.subject = N[i].raw_email_subject
        /\ c.email_date.day * SecondsPerDay = N[i].date_received
        /\ Some(c.email_date.minute) = N[i].time_received
        /\ PlatformOf(c) = N[i].platform}

\* Emails the mail client may deliver: a new message with any content, or a
\* stored message once more
FeedEmails(N) ==
    {[message_id |-> Len(N) + 1, content |-> c] : c \in FeedContents}
    \cup UNION {{[message_id |-> N[i].gmail_message_id, content |-> c] :
                    c \in FeedContentOf(N, i)} : i \in Ids(N)}

InsertNotificationFeed == InsertNotificationFrom(FeedEmails(notifications))

SyncStoreEmailFeed == SyncStoreEmailFrom(FeedEmails(notifications))

NextPlatform ==
    \/ InsertNotificationFeed
    \/ SyncStoreEmailFeed
    \/ SyncLinkPairs

SpecPlatform == Init /\ [][NextPlatform]_vars

(* --------------------- the extractor on its own ---------------------- *)

MinutesPerHour == 60

SecondsPerHour == MinutesPerHour * SecondsPerMinute

\* The status words a subject may hold
SubjectWords == {"resolved", "completed", "restored", "open", "continuing"}

\* What the body holds after <b>Start Time:</b>&nbsp; or <b>End Time:</b>&nbsp; :
\* nothing (the field is not there), a text strptime refuses, or
\* "YYYY-MM-DD HH:MM GMT" (day counted from the first day of the feed)
NoField == [found |-> FALSE, wellformed |-> FALSE, day |-> 0, hh |-> 0, mm |-> 0]

Malformed == [found |-> TRUE, wellformed |-> FALSE, day |-> 0, hh |-> 0, mm |-> 0]

TimeText(day, hh, mm) ==
    [found |-> TRUE, wellformed |-> TRUE, day |-> day, hh |-> hh, mm |-> mm]

TimeFields ==
    {NoField, Malformed, TimeText(0, 23, 50), TimeText(1, 0, 10), TimeText(3, 9, 22)}

\* the arguments of parse_text: the status words of the subject and the two
\* fields of the body
ParseInputs ==
    [subject : SUBSET SubjectWords, reference : {"S-000001"},
     start_time : TimeFields, end_time : TimeFields]

\* datetime.strptime(text.replace(" GMT", ""), "%Y-%m-%d %H:%M"): the seconds
\* since the first day; it raises (None) on a text of another form
strptime(field) ==
    IF field.wellformed
    THEN Some(field.day * SecondsPerDay + field.hh * SecondsPerHour
              + field.mm * SecondsPerMinute)
    ELSE None

\* dt.strftime("%Y-%m-%d %H:%M:%S")
strftime(dt) ==
    [day |-> dt \div SecondsPerDay,
     hh  |-> (dt % SecondsPerDay) \div SecondsPerHour,
     mm  |-> (dt % SecondsPerHour) \div SecondsPerMinute,
     ss  |-> dt % SecondsPerMinute]

\* as strptime_seconds, the date being left out of the difference
strptime_seconds_TimeOfDay(text) ==
    text.hh * SecondsPerHour + text.mm * SecondsPerMinute + text.ss

\* datetime.strptime(text, "%Y-%m-%d %H:%M:%S")
strptime_seconds(text) ==
    text.day * SecondsPerDay + text.hh * SecondsPerHour
    + text.mm * SecondsPerMinute + text.ss

\* the stored text of one field: None unless it was found and parsed
incident_time(field) ==
    IF field.found /\ strptime(field) # None
    THEN Some(strftime(strptime(field)[1]))
    ELSE None

\* as incident_duration, a missing time being taken to be the other one
incident_duration_HalfComputed(start_text, end_text) ==
    IF start_text # None /\ end_text # None
    THEN Some(TruncDiv(strptime_seconds(end_text[1]) - strptime_seconds(start_text[1]),
                       SecondsPerMinute))
    ELSE IF start_text # None \/ end_text # None THEN Some(0)
    ELSE None

\* int((end_dt - start_dt).total_seconds() / 60) if both times are there
incident_duration(start_text, end_text) ==
    IF start_text # None /\ end_text # None
    THEN Some(TruncDiv(strptime_seconds(end_text[1]) - strptime_seconds(start_text[1]),
                       SecondsPerMinute))
    ELSE None

\* as incident_times, the status not being looked at
incident_times_AnyStatus(status, start_time, end_time) ==
    [incident_start_time       |-> incident_time(start_time),
     incident_end_time         |-> incident_time(end_time),
     incident_duration_minutes |->
         incident_duration(incident_time(start_time), incident_time(end_time))]

\* the incident times of parse_text, read from a Resolved email only
incident_times(status, start_time, end_time) ==
    IF status = "Resolved"
    THEN [incident_start_time       |-> incident_time(start_time),
          incident_end_time         |-> incident_time(end_time),
          incident_duration_minutes |->
              incident_duration(incident_time(start_time), incident_time(end_time))]
    ELSE [incident_start_time |-> None, incident_end_time |-> None,
          incident_duration_minutes |-> None]

\* parse_text on the subject and the body: the fields derived from them
parse_text_fields(input) ==
    LET status == StatusFromSubject(input.subject) IN
    [reference_number |-> input.reference, status |-> status]
    @@ incident_times(status, input.start_time, input.end_time)

InitParse ==
    /\ notifications = <<>>
    /\ notification_pairs = {}
    /\ committed_notifications = <<>>
    /\ committed_pairs = {}
    /\ sync_pc = "idle"
    /\ counts = ZeroCounts
    /\ runs = [r \in Runs |-> [pc |-> "start", gid |-> 0, existing |-> FALSE, ret |-> 0]]
    /\ sync_history = <<>>
    /\ clock = 0
    /\ sync_run = NoSyncRun
    /\ last \in {[op |-> "input", input |-> input] : input \in ParseInputs}

\* a call of SimpleORBCOMMParser.parse_text
ParseText ==
    /\ last.op = "input"
    /\ last' = [op |-> "parse_text", input |-> last.input,
                result |-> parse_text_fields(last.input)]
    /\ UNCHANGED <<notifications, notification_pairs, committed_notifications,
                   committed_pairs, sync_pc, counts, runs, sync_vars>>

SpecParse == InitParse /\ [][ParseText]_vars

(* ------------------------------- claims ------------------------------- *)

PairsOf(P, ref) == {p \in P : p.reference_number = ref}

HasStatus(N, ref, status) == \E i \in RowsOf(N, ref) : N[i].status = status

\* the status a row was ingested with, as its stored subject gives it
IngestedStatus(N, i) == StatusFromSubject(N[i].raw_email_subject)

TablesUnchanged ==
    /\ notifications' = notifications
    /\ notification_pairs' = notification_pairs

UniqueGmailIds ==
    \A i, j \in Ids(notifications) :
        notifications[i].gmail_message_id = notifications[j].gmail_message_id => i = j

DuplicateInsertIsNoOp ==
    (/\ last'.op \in {"insert", "parse_and_store"}
     /\ last'.gid \in GmailIds(notifications))
    => last'.ret = 0 /\ TablesUnchanged

\* C1: no two stored notifications share a gmail_message_id, and an insert whose
\* gmail_message_id is already stored returns None (0) and leaves every
\* notification and every pair as it was.
C1_UniqueExternalId == []UniqueGmailIds /\ [][DuplicateInsertIsNoOp]_vars

\* C1 witness: a direct insert_notification of a stored gmail_message_id has just
\* returned None.
C1_Witness ==
    /\ last.op = "insert"
    /\ last.ret = 0
    /\ last.gid \in GmailIds(notifications)

\* the case of C2: one Resolved row, an Open row received before it, and nothing
\* else than Open and Continuing rows
OpenThenResolved(N, ref) ==
    /\ Cardinality({i \in RowsOf(N, ref) : N[i].status = "Resolved"}) = 1
    /\ \E o, r \in RowsOf(N, ref) :
          /\ N[o].status = "Open"
          /\ N[r].status = "Resolved"
          /\ N[o].date_received < N[r].date_received

LinkResolvesAll ==
    \A ref \in Refs :
        (/\ last'.op = "link"
         /\ last'.ref = ref
         /\ OpenThenResolved(notifications, ref))
        => /\ last'.ret = 1
           /\ Cardinality(PairsOf(notification_pairs', ref)) = 1
           /\ \A i \in RowsOf(notifications, ref) : notifications'[i].status = "Resolved"

\* C2: with one Open row received at T0, one Resolved row received at T1 > T0 and
\* further Open or Continuing rows, link_notification_pair returns True, leaves
\* exactly one pair for the reference number and every row of it Resolved.
C2_LinkOpenResolved == [][LinkResolvesAll]_vars

\* C2 witness: a link has just succeeded on a reference number that has an Open, a
\* Continuing and a Resolved email, the Resolved one received a day after the Open.
C2_Witness ==
    /\ last.op = "link"
    /\ last.ret = 1
    /\ Cardinality(RowsOf(notifications, last.ref)) = 3
    /\ \A st \in {"Open", "Continuing", "Resolved"} :
          \E i \in RowsOf(notifications, last.ref) : IngestedStatus(notifications, i) = st
    /\ \E p \in PairsOf(notification_pairs, last.ref) : p.time_to_resolve_minutes > 0

\* C3: notification_pairs holds at most one pair per reference_number.
C3_OnePairPerReference ==
    \A p, q \in notification_pairs : p.reference_number = q.reference_number => p = q

\* C3 witness: a pair has been replaced by a second link; its resolved anchor is a
\* row that the first link forced to Resolved.
C3_Witness ==
    \E p \in notification_pairs :
        /\ last.op = "link"
        /\ last.ret = 1
        /\ last.ref = p.reference_number
        /\ IngestedStatus(notifications, p.resolved_notification_id) = "Open"

SecondLinkReproduces ==
    (/\ last.op = "link"
     /\ last.ret = 1
     /\ last'.op = "link"
     /\ last'.ref = last.ref)
    => last'.ret = 1 /\ TablesUnchanged

\* C4: a second link_notification_pair right after a successful one for the same
\* reference number succeeds again and leaves the pair and the statuses as the
\* first call left them.
C4_LinkIdempotent == [][SecondLinkReproduces]_vars

Earliest(N, S, i) == i \in S /\ \A j \in S : N[i].date_received <= N[j].date_received

IngestedAs(N, ref, status) == {i \in RowsOf(N, ref) : IngestedStatus(N, i) = status}

\* C5: after a successful link the pair's open anchor is the earliest-received row
\* ingested as Open and its resolved anchor the earliest-received row ingested as
\* Resolved; a row that was forced to Resolved is never the resolved anchor.
C5_AnchorsAsIngested ==
    (last.op = "link" /\ last.ret = 1)
    => \A p \in PairsOf(notification_pairs, last.ref) :
          /\ Earliest(notifications, IngestedAs(notifications, last.ref, "Open"),
                      p.open_notification_id)
          /\ Earliest(notifications, IngestedAs(notifications, last.ref, "Resolved"),
                      p.resolved_notification_id)

\* C6: when a sync run that stored a record has completed, no reference number
\* with a Resolved notification has a notification left Open or Continuing.
C6_ResolvedPropagates ==
    (last.op = "sync" /\ last.result.stored > 0)
    => \A ref \in Refs :
          HasStatus(notifications, ref, "Resolved")
          => /\ ~HasStatus(notifications, ref, "Open")
             /\ ~HasStatus(notifications, ref, "Continuing")

ResolvedStays ==
    \A i \in Ids(notifications) :
        notifications[i].status = "Resolved"
        => /\ i \in Ids(notifications')
           /\ notifications'[i].status = "Resolved"
           /\ notifications'[i].reference_number = notifications[i].reference_number

\* C7: a notification that is Resolved stays Resolved and stays with its reference
\* number in every later state, whatever operation is run.
C7_ResolvedTerminal == [][ResolvedStays]_vars

\* C7 witness: an email stored again after its row was forced to Resolved has left
\* the row Resolved.
C7_Witness ==
    /\ last.op \in {"insert", "parse_and_store"}
    /\ \E i \in Ids(notifications) :
          /\ notifications[i].gmail_message_id = last.gid
          /\ notifications[i].status = "Resolved"
          /\ IngestedStatus(notifications, i) = "Open"

LacksAnchors(N, ref) ==
    \/ Cardinality(RowsOf(N, ref)) < 2
    \/ ~HasStatus(N, ref, "Open")
    \/ ~HasStatus(N, ref, "Resolved")

\* a call for ref, by itself or as one of the calls of link_all_pairs in a sync
LinkWithoutAnchorsIsNoOp ==
    \A ref \in Refs :
        /\ (/\ last'.op = "link"
            /\ last'.ref = ref
            /\ LacksAnchors(notifications, ref))
           => last'.ret = 0 /\ TablesUnchanged
        /\ (last'.op = "sync" /\ LacksAnchors(notifications, ref))
           => /\ \A i \in RowsOf(notifications, ref) : notifications'[i] = notifications[i]
              /\ PairsOf(notification_pairs', ref) = PairsOf(notification_pairs, ref)

\* C8: link_notification_pair for a reference number with fewer than two rows, or
\* without an Open row, or without a Resolved row, returns False and leaves the
\* notifications and the pairs as they were.
C8_LinkPreconditions == [][LinkWithoutAnchorsIsNoOp]_vars

\* C8 witness: a link has just returned False for a reference number that has a
\* Continuing and a Resolved row but no Open one.
C8_Witness ==
    /\ last.op = "link"
    /\ last.ret = 0
    /\ HasStatus(notifications, last.ref, "Continuing")
    /\ HasStatus(notifications, last.ref, "Resolved")
    /\ ~HasStatus(notifications, last.ref, "Open")

FailedLinkWritesNothing == last'.op = "link_failed" => TablesUnchanged

\* C9: a link_notification_pair in which a statement fails after the pair upsert
\* returns False with none of its writes left in the tables.
C9_LinkAtomic == [][FailedLinkWritesNothing]_vars

\* the received date and time of row i in minutes, for a row stored by the extractor
ReceivedMinutes(N, i) ==
    N[i].date_received \div SecondsPerMinute + N[i].time_received[1]

\* C10: for notifications stored through the extractor the pair's
\* time_to_resolve_minutes is the number of minutes between the received date and
\* time of the open anchor and those of the resolved anchor.
C10_ElapsedMinutes ==
    \A p \in notification_pairs :
        (/\ notifications[p.open_notification_id].time_received # None
         /\ notifications[p.resolved_notification_id].time_received # None)
        => p.time_to_resolve_minutes =
              ReceivedMinutes(notifications, p.resolved_notification_id)
              - ReceivedMinutes(notifications, p.open_notification_id)

\* C11: right after link_notification_pair has returned True, the pair of the
\* reference number carries the incident_duration_minutes stored on the row its
\* resolved_notification_id names (NULL when that row has none), whatever the
\* received dates and time_to_resolve_minutes are.
C11_PairDurationCopied ==
    (last.op = "link" /\ last.ret = 1)
    => /\ PairsOf(notification_pairs, last.ref) # {}
       /\ \A p \in PairsOf(notification_pairs, last.ref) :
             p.incident_duration_minutes =
                notifications[p.resolved_notification_id].incident_duration_minutes

\* C11 witness: a link has just returned True and its pair carries an incident
\* duration that differs from its time_to_resolve_minutes, or NULL.
C11_Witness ==
    /\ last.op = "link"
    /\ last.ret = 1
    /\ \E p \in PairsOf(notification_pairs, last.ref) :
          /\ p.incident_duration_minutes # None
          /\ p.incident_duration_minutes[1] # p.time_to_resolve_minutes

DuplicateCounted ==
    /\ (last'.op = "parse_and_store" /\ last'.gid \in GmailIds(notifications))
       => /\ notifications' = notifications
          /\ counts'.duplicates = counts.duplicates + 1
    /\ last'.op = "parse_and_store" => counts'.duplicates >= counts.duplicates
    /\ last'.op = "sync" => last'.result.duplicates = counts.duplicates

\* C12: an email of a batch whose message id is already stored, by an earlier
\* batch or earlier in the same batch, adds no row and adds one to the duplicates
\* the batch reports; no two rows share a message id.
C12_BatchDuplicate == []UniqueGmailIds /\ [][DuplicateCounted]_vars

\* C12 witness: a sync has just reported one stored email and one duplicate of it,
\* delivered in the same batch, and the table has the one row.
C12_Witness ==
    /\ last.op = "sync"
    /\ last.result.stored = 1
    /\ last.result.duplicates = 1
    /\ Len(notifications) = 1

Processed(c) == c.stored + c.duplicates + c.errors

ClassifiedOnce ==
    last'.op = "parse_and_store"
    => /\ Processed(counts') = Processed(counts) + 1
       /\ counts'.duplicates > counts.duplicates
          => last'.gid \in GmailIds(notifications)
       /\ (last'.ret = 0 /\ last'.gid \notin GmailIds(notifications))
          => counts'.errors = counts.errors + 1

\* C13: every email of a batch is counted once, as stored, duplicate or error; it
\* is counted as a duplicate only if its message id was already stored, and as an
\* error if its insert fails for any other reason.
C13_Classified == [][ClassifiedOnce]_vars

\* the CHECK constraint on platform
StorablePlatforms == {"IDP", "OGx", "OGWS", "Unknown"}

FreshStorableIsStored ==
    (/\ last'.op = "parse_and_store"
     /\ last'.gid \notin GmailIds(notifications)
     /\ last'.platform \in StorablePlatforms)
    => /\ last'.ret = Len(notifications) + 1
       /\ Len(notifications') = Len(notifications) + 1
       /\ notifications'[last'.ret].gmail_message_id = last'.gid
       /\ counts'.stored = counts.stored + 1

\* C14: an email of a batch with a fresh message id and storable fields is stored
\* and counted as stored, wherever in the batch it comes and whatever emails of
\* the batch failed before it.
C14_PartialFailure == [][FreshStorableIsStored]_vars

\* C14 witness: a batch in which an email failed to be stored has just stored the
\* email after it.
C14_Witness ==
    /\ last.op = "parse_and_store"
    /\ last.ret # 0
    /\ counts.stored = 1
    /\ counts.duplicates = 1
    /\ Len(notifications) = 1

ExtractedIsStored ==
    (/\ last'.op \in {"insert", "parse_and_store"}
     /\ last'.gid \notin GmailIds(notifications))
    => last'.ret # 0

\* C16: insert_notification of a record the extractor produced, with a fresh
\* message id, returns an id, whatever the subject and the body yield.
C16_ExtractedStorable == [][ExtractedIsStored]_vars

\* the reference numbers of the rows the batch has stored: nothing else inserts
\* while a batch runs, so they are the last counts.stored rows
Touched(N, c) == {N[i].reference_number : i \in (Len(N) - c.stored + 1)..Len(N)}

\* the reference numbers of refs for which link_notification_pair returns True
Linkable(N, refs) == {r \in refs : ~LacksAnchors(N, r)}

LinksTouchedOnly ==
    last'.op = "sync"
    => /\ last'.result.invoked = Touched(notifications, counts)
       /\ last'.result.pairs_linked =
             Cardinality(Linkable(notifications, Touched(notifications, counts)))

RefsOfInbox(N, inbox_source) ==
    {N[i].reference_number : i \in {j \in Ids(N) : N[j].inbox_source = inbox_source}}

LinksAllOfInbox ==
    last'.op = "sync"
    => /\ counts.stored > 0
          => /\ last'.result.invoked = RefsOfInbox(notifications, ContinuousInbox)
             /\ last'.result.pairs_linked =
                   Cardinality(Linkable(notifications, last'.result.invoked))
       /\ counts.stored = 0
          => /\ last'.result.invoked = {}
             /\ last'.result.pairs_linked = 0
             /\ TablesUnchanged

Flipped == {i \in Ids(notifications) :
               ~notifications[i].is_archived /\ notifications'[i].is_archived}

ArchiveSweep ==
    last'.op = "archive"
    => /\ \E cutoff \in Cutoffs :
             \A i \in Ids(notifications) :
                notifications'[i] =
                   IF notifications[i].date_received < cutoff
                      /\ ~notifications[i].is_archived
                   THEN [notifications[i] EXCEPT !.is_archived = TRUE]
                   ELSE notifications[i]
       /\ Len(notifications') = Len(notifications)
       /\ last'.ret = Cardinality(Flipped)
       /\ notification_pairs' = notification_pairs
       /\ last.op = "archive" => last'.ret = 0 /\ TablesUnchanged

C19_ListByStatus ==
    last.op = "list"
    => last.result.rows =
          {i \in Ids(notifications) :
              /\ notifications[i].status = last.result.status
              /\ last.result.include_archived \/ ~notifications[i].is_archived}

\* C19 witness: a call with include_archived False has just returned a row and
\* left out an archived row of the same status.
C19_Witness ==
    /\ last.op = "list"
    /\ ~last.result.include_archived
    /\ last.result.rows # {}
    /\ \E i \in Ids(notifications) :
          /\ notifications[i].status = last.result.status
          /\ notifications[i].is_archived

\* the table with the is_archived flags of the rows of ref set as f says
WithFlags(N, ref, f) ==
    [i \in Ids(N) |-> IF i \in RowsOf(N, ref) THEN [N[i] EXCEPT !.is_archived = f[i]]
                      ELSE N[i]]

\* what a link for ref returns and leaves in the tables: its return value, the
\* pair of ref and the statuses of the rows of ref
LinkOutcomes(N, P, ref) ==
    {<<out.ret, PairsOf(out.pairs, ref),
       [i \in RowsOf(N, ref) |-> out.notifications[i].status]>> :
        out \in link_notification_pair(N, P, ref, "none")}

\* C20: in every store state and for every reference number, what
\* link_notification_pair returns and the pair and the statuses it leaves are the
\* same whatever the is_archived flags of the rows of the reference number are.
C20_ArchivedEligible ==
    \A ref \in Refs :
        LET asStored == LinkOutcomes(notifications, notification_pairs, ref) IN
        \A f \in [RowsOf(notifications, ref) -> BOOLEAN] :
            LinkOutcomes(WithFlags(notifications, ref, f), notification_pairs, ref)
            = asStored

\* C20 witness: a link has just returned True with an archived row as its open
\* anchor.
C20_Witness ==
    /\ last.op = "link"
    /\ last.ret = 1
    /\ \E p \in PairsOf(notification_pairs, last.ref) :
          notifications[p.open_notification_id].is_archived

RowsWithGmailId(N, m) == {i \in Ids(N) : N[i].gmail_message_id = m}

\* both runs are through with the same message
BothIngested(m) == \A r \in Runs : runs[r].pc = "done" /\ runs[r].gid = m

\* C17: when two concurrent sync runs have both ingested an email with the same
\* message id, the table holds exactly one row with that id and at most one run
\* has stored it; if neither found it at its check, one of them has stored it
\* and the other has got None from the insert.
C17_RaceSafeDedup ==
    /\ UniqueGmailIds
    /\ \A m \in 1..MaxNotifs :
          BothIngested(m)
          => /\ Cardinality(RowsWithGmailId(notifications, m)) = 1
             /\ Cardinality({r \in Runs : runs[r].ret # 0}) <= 1
             /\ (\A r \in Runs : ~runs[r].existing)
                => Cardinality({r \in Runs : runs[r].ret # 0}) = 1

\* C17 witness: both runs passed the check for the same message before either
\* inserted it; one has stored it and the other has got None.
C17_Witness ==
    \E m \in 1..MaxNotifs :
        /\ BothIngested(m)
        /\ \A r \in Runs : ~runs[r].existing
        /\ runs[1].ret # 0
        /\ runs[2].ret = 0

\* ref has a row that was ingested as Resolved or has been forced to Resolved
EverResolved(N, ref) ==
    \E i \in RowsOf(N, ref) :
        IngestedStatus(N, i) = "Resolved" \/ N[i].status = "Resolved"

\* ref has a listed row in status Open or Continuing
ListedOpen(N, ref, include_archived) ==
    \E i \in RowsOf(N, ref) :
        /\ N[i].status \in {"Open", "Continuing"}
        /\ include_archived \/ ~N[i].is_archived

\* C21: the open_count of get_current_stats is the number of reference numbers
\* with a listed Open or Continuing row and without any row, archived or not,
\* that has ever been Resolved.
C21_OpenCount ==
    last.op = "stats"
    => last.result.open_count =
          Cardinality({ref \in Refs :
              /\ ListedOpen(notifications, ref, last.result.include_archived)
              /\ ~EverResolved(notifications, ref)})

\* C21 witness: stats without archived rows has just reported no open reference
\* number although one has a listed Continuing row: its Resolved row is archived.
C21_Witness ==
    /\ last.op = "stats"
    /\ ~last.result.include_archived
    /\ last.result.open_count = 0
    /\ \E ref \in Refs :
          /\ ListedOpen(notifications, ref, FALSE)
          /\ \A i \in RowsOf(notifications, ref) :
                notifications[i].status = "Resolved" => notifications[i].is_archived

\* the field was found in the body and is of the form strptime takes
Parsed(field) == field.found /\ field.wellformed

\* the text stored for a field that was parsed
StoredText(field) == [day |-> field.day, hh |-> field.hh, mm |-> field.mm, ss |-> 0]

ResolvedSubject(words) == words \cap {"resolved", "completed", "restored"} # {}

\* C22: for a Resolved email each of the two incident times is extracted on its
\* own, None where its field is missing or unparseable; incident_duration_minutes
\* is set only if both were parsed; the rest of the record is extracted in any
\* case.
C22_DurationNeedsBoth ==
    (last.op = "parse_text" /\ ResolvedSubject(last.input.subject))
    => /\ last.result.incident_start_time =
             (IF Parsed(last.input.start_time)
              THEN Some(StoredText(last.input.start_time)) ELSE None)
       /\ last.result.incident_end_time =
             (IF Parsed(last.input.end_time)
              THEN Some(StoredText(last.input.end_time)) ELSE None)
       /\ last.result.incident_duration_minutes # None
          <=> (Parsed(last.input.start_time) /\ Parsed(last.input.end_time))
       /\ last.result.status = "Resolved"
       /\ last.result.reference_number = last.input.reference

\* C22 witness: parse_text has just returned an end time and no duration for a
\* Resolved email whose Start Time field is unparseable.
C22_Witness ==
    /\ last.op = "parse_text"
    /\ last.input.start_time = Malformed
    /\ last.result.incident_start_time = None
    /\ last.result.incident_end_time # None
    /\ last.result.incident_duration_minutes = None
    /\ last.result.status = "Resolved"

\* C23: the three incident fields are extracted only when the status derived from
\* the subject is Resolved; for Open and Continuing they stay None whatever the
\* body holds.
C23_ResolvedOnly ==
    (last.op = "parse_text" /\ last.result.status # "Resolved")
    => /\ last.result.incident_start_time = None
       /\ last.result.incident_end_time = None
       /\ last.result.incident_duration_minutes = None

\* C23 witness: parse_text has just returned no incident field for a Continuing
\* email whose body holds both times well formed.
C23_Witness ==
    /\ last.op = "parse_text"
    /\ last.result.status = "Continuing"
    /\ Parsed(last.input.start_time)
    /\ Parsed(last.input.end_time)
    /\ last.result.incident_end_time = None

\* C24: the status is Resolved if the subject holds resolved, completed or
\* restored; otherwise Continuing if it holds continuing, whatever else it holds;
\* otherwise Open.
C24_StatusFromSubject ==
    last.op = "parse_text"
    => last.result.status =
          (IF ResolvedSubject(last.input.subject) THEN "Resolved"
           ELSE IF "continuing" \in last.input.subject THEN "Continuing"
           ELSE "Open")

\* the minutes from the first day's midnight to the time the field names
MinuteOf(field) == (field.day * 24 + field.hh) * MinutesPerHour + field.mm

\* C29: when both incident times were parsed, incident_duration_minutes is the
\* number of minutes from the start to the end, days included, and is not negative
\* when the end is not before the start.
C29_DurationMinutes ==
    (/\ last.op = "parse_text"
     /\ ResolvedSubject(last.input.subject)
     /\ Parsed(last.input.start_time)
     /\ Parsed(last.input.end_time))
    => /\ last.result.incident_duration_minutes =
             Some(MinuteOf(last.input.end_time) - MinuteOf(last.input.start_time))
       /\ MinuteOf(last.input.end_time) >= MinuteOf(last.input.start_time)
          => last.result.incident_duration_minutes[1] >= 0

\* C29 witness: parse_text has just returned a duration of 3452 minutes for an
\* incident from 23:50 of one day to 09:22 three days later.
C29_Witness ==
    /\ last.op = "parse_text"
    /\ last.input.start_time = TimeText(0, 23, 50)
    /\ last.input.end_time = TimeText(3, 9, 22)
    /\ last.result.incident_duration_minutes = Some(3452)

\* row i after the step differs from row i before it in nothing but status,
\* resolution_date and time_to_resolve_minutes
OnlyPairingFields(i) ==
    [notifications'[i] EXCEPT !.status = notifications[i].status,
                              !.resolution_date = notifications[i].resolution_date,
                              !.time_to_resolve_minutes =
                                  notifications[i].time_to_resolve_minutes]
    = notifications[i]

LinkFrame ==
    last'.op = "link"
    => /\ Len(notifications') = Len(notifications)
       /\ \A i \in Ids(notifications) :
             IF notifications[i].reference_number # last'.ref
             THEN notifications'[i] = notifications[i]
             ELSE /\ OnlyPairingFields(i)
                  /\ notifications'[i].status \in {notifications[i].status, "Resolved"}
                  /\ (\/ notifications'[i].resolution_date
                           # notifications[i].resolution_date
                      \/ notifications'[i].time_to_resolve_minutes
                           # notifications[i].time_to_resolve_minutes)
                     => \E p \in PairsOf(notification_pairs', last'.ref) :
                           p.resolved_notification_id = i
       /\ notification_pairs' \ PairsOf(notification_pairs', last'.ref)
          = notification_pairs \ PairsOf(notification_pairs, last'.ref)

\* C25: link_notification_pair leaves the rows of every other reference number
\* and every other pair as they were; on the rows of its own reference number it
\* changes only status, to Resolved, and, on the row that is the resolved anchor
\* of the pair, resolution_date and time_to_resolve_minutes.
C25_LinkFrame == [][LinkFrame]_vars

\* C25 witness: a link has just returned True while the table holds a row of
\* another reference number.
C25_Witness ==
    /\ last.op = "link"
    /\ last.ret = 1
    /\ \E i \in Ids(notifications) : notifications[i].reference_number # last.ref

\* C26: a row has a time_to_resolve_minutes only if it is the resolved anchor of
\* the pair of its reference number, and then it has the pair's value.
C26_LatencyOnAnchorOnly ==
    \A i \in Ids(notifications) :
        notifications[i].time_to_resolve_minutes # None
        => \E p \in PairsOf(notification_pairs, notifications[i].reference_number) :
              /\ p.resolved_notification_id = i
              /\ Some(p.time_to_resolve_minutes) = notifications[i].time_to_resolve_minutes

LinkedWithFloor ==
    last'.op = "link" /\ last'.ret = 1
    => \A p \in PairsOf(notification_pairs', last'.ref) :
          p.time_to_resolve_minutes
          = (notifications[p.resolved_notification_id].date_received
             - notifications[p.open_notification_id].date_received) \div SecondsPerMinute

\* C27: the time_to_resolve_minutes a successful link writes is the floor of the
\* seconds from the open anchor's date_received to the resolved anchor's, divided
\* by 60, also when the resolved anchor is the earlier of the two.
C27_FloorOfMinutes == [][LinkedWithFloor]_vars

BackfillRelinks ==
    last'.op = "backfill" /\ ResolvedRows(notifications) # {}
    => /\ last'.ret = Cardinality(PairedRefs(notification_pairs))
       /\ \A p \in notification_pairs' :
             p.incident_duration_minutes
             = notifications'[p.resolved_notification_id].incident_duration_minutes

\* C28: when backfill_incident_times has run, link_notification_pair has returned
\* True for every reference number of notification_pairs and every pair has the
\* incident_duration_minutes of its resolved notification.
C28_BackfillRelinks == [][BackfillRelinks]_vars

\* every sync() that has finished has its row marked
SyncsMarked ==
    \A i \in 1..Len(sync_history) :
        \/ sync_run.pc # "idle" /\ i = sync_run.sync_id
        \/ sync_history[i].status \in {Some("success"), Some("partial"), Some("failed")}

\* the step is the start of a sync()
Begins == sync_run.pc = "idle" /\ sync_run'.pc = "fetch"

\* the since_date selected is the start of the most recent success of the inbox
SinceLastSuccess ==
    Begins /\ SuccessRows(sync_history, sync_run'.inbox_source) # {}
    => /\ \E i \in SuccessRows(sync_history, sync_run'.inbox_source) :
             sync_run'.since_date = sync_history[i].sync_start
       /\ \A i \in SuccessRows(sync_history, sync_run'.inbox_source) :
             sync_history[i].sync_start <= sync_run'.since_date

\* a sync that ends failed or partial leaves the watermark of every inbox alone
WatermarkKept ==
    /\ sync_run.pc # "idle" /\ sync_run'.pc = "idle"
    /\ sync_history'[sync_run.sync_id].status \in {Some("failed"), Some("partial")}
    => \A x \in SyncInboxes :
          get_last_sync_date(sync_history', x) = get_last_sync_date(sync_history, x)

\* the sync that follows a failed or partial sync of its inbox starts its window
\* no later than that sync did
WindowFetchedAgain ==
    /\ Begins
    /\ sync_run.sync_id # 0
    /\ sync_run.inbox_source = sync_run'.inbox_source
    /\ sync_history[sync_run.sync_id].status \in {Some("failed"), Some("partial")}
    => sync_run'.since_date <= sync_run.since_date

\* C30: every sync() that has logged its start and finished has its row marked
\* success, partial or failed; a sync() selects as since_date the start of the
\* most recent success of its inbox; a sync that ends failed or partial leaves
\* that date as it was, and the next sync of the inbox fetches its window again.
C30_SyncWatermark ==
    /\ []SyncsMarked
    /\ [][SinceLastSuccess /\ WatermarkKept /\ WindowFetchedAgain]_vars

====
